---- MODULE Spec2Model ----
(***************************************************************************)
(* Model of the CompaniesDirectory React component                         *)
(* (src/companies-directory/src/components/companies-directory.jsx).       *)
(*                                                                         *)
(* JavaScript strings whose characters the code inspects (search text,     *)
(* name, industry, location, description) are sequences of one-character   *)
(* strings; messages that are only stored and shown are TLA+ strings.      *)
(***************************************************************************)
EXTENDS Integers, Sequences, FiniteSets, TLC

VARIABLES
  phase,            \* "init" (rendered, effects not yet run), "mounted", "unmounted"
  companies,        \* useState([])
  loading,          \* useState(true)
  error,            \* useState(null)
  search,           \* useState("")  raw search text
  debouncedSearch,  \* useState("")
  location,         \* useState("All")
  industry,         \* useState("All")
  sort,             \* useState("name-asc")
  page,             \* useState(1)
  mounted,          \* the fetch effect's closure flag
  fetchState,       \* the promise of fetchCompanies(): "none", "pending", "settled"
  fetchCount,       \* number of fetchCompanies() calls issued
  settledWith,      \* the outcome the request ended in, NoOutcome before
  timers,           \* pending setTimeout callbacks: records [id, value]
  timer,            \* id held by the live debounce effect's cleanup closure
  burstLen,         \* history: raw changes in the current burst (saturating)
  applied,          \* history: values the current burst's timers delivered
  resetFrom         \* history: the page shown when the last step changed a
                    \* pipeline input (0 when it changed none)

vars == <<phase, companies, loading, error, search, debouncedSearch, location,
          industry, sort, page, mounted, fetchState, fetchCount, settledWith, timers,
          timer, burstLen, applied, resetFrom>>

-----------------------------------------------------------------------------
(* Bounds of the model *)

\* Largest collection the endpoint returns (two full pages and more).
MaxCompanies == 17
\* Largest collection served in the second order of profiles.
MaxReordered == 6
\* Largest collection that is followed by a company named "All".
MaxWithAll == 2
\* Timers that may be pending at once before further typing is held back.
MaxTimers == 2
\* The burst counter saturates here.
MaxBurst == 2

-----------------------------------------------------------------------------
(* Program constants *)

PAGE_SIZE == 8

null == "<null>"

All == <<"A", "l", "l">>

SortKeys == {"name-asc", "name-desc", "employees-desc", "employees-asc"}

-----------------------------------------------------------------------------
(* JavaScript string primitives *)

\* UTF-16 code unit of each character of the model's alphabet.
CodeUnit == [ch \in {" ", "A", "B", "a", "b", "l"} |->
               CASE ch = " " -> 32 [] ch = "A" -> 65 [] ch = "B" -> 66
                 [] ch = "a" -> 97 [] ch = "b" -> 98 [] ch = "l" -> 108]

IsWhitespace(ch) == ch = " "

IsUpper(ch) == CodeUnit[ch] >= 65 /\ CodeUnit[ch] <= 90

\* String.prototype.toLowerCase, per character.
LowerChar(ch) == CASE ch = "A" -> "a" [] ch = "B" -> "b" [] OTHER -> ch

toLowerCase(s) == [i \in 1..Len(s) |-> LowerChar(s[i])]

\* String.prototype.trim: strips leading and trailing whitespace.
RECURSIVE trimStart(_)
trimStart(s) ==
  IF s # <<>> /\ IsWhitespace(s[1]) THEN trimStart(Tail(s)) ELSE s

RECURSIVE trimEnd(_)
trimEnd(s) ==
  IF s # <<>> /\ IsWhitespace(s[Len(s)])
    THEN trimEnd(SubSeq(s, 1, Len(s) - 1))
    ELSE s

trim(s) == trimEnd(trimStart(s))

\* String.prototype.includes: q occurs in s as a contiguous substring.
includes(s, q) ==
  \E i \in 0..(Len(s) - Len(q)) : SubSeq(s, i + 1, i + Len(q)) = q

\* JavaScript truthiness of a string: non-empty.
Truthy(s) == s # <<>>

\* Lexicographic comparison of two sequences of integers: -1, 0 or 1.
RECURSIVE LexCompare(_, _)
LexCompare(a, b) ==
  IF a = <<>> /\ b = <<>> THEN 0
  ELSE IF a = <<>> THEN -1
  ELSE IF b = <<>> THEN 1
  ELSE IF a[1] < b[1] THEN -1
  ELSE IF a[1] > b[1] THEN 1
  ELSE LexCompare(Tail(a), Tail(b))

\* String.prototype.localeCompare in the default (root/en) collation: letters
\* compare alphabetically without regard to case, whitespace sorts before
\* letters; strings equal at that level are ordered by case, lower case first.
PrimaryKey(s) == [i \in 1..Len(s) |-> CodeUnit[LowerChar(s[i])]]

TertiaryKey(s) == [i \in 1..Len(s) |-> IF IsUpper(s[i]) THEN 1 ELSE 0]

localeCompare(a, b) ==
  IF LexCompare(PrimaryKey(a), PrimaryKey(b)) # 0
    THEN LexCompare(PrimaryKey(a), PrimaryKey(b))
    ELSE LexCompare(TertiaryKey(a), TertiaryKey(b))

\* Array.prototype.slice(start, end) on a 0-indexed array held 1-indexed.
slice(arr, start, end) ==
  SubSeq(arr, start + 1, IF end < Len(arr) THEN end ELSE Len(arr))

Max(a, b) == IF a >= b THEN a ELSE b

Min(a, b) == IF a <= b THEN a ELSE b

\* CeilDiv that rounds down.
CeilDiv_Floor(n, d) == n \div d

\* Math.ceil(n / d) for n >= 0, d > 0.
CeilDiv(n, d) == (n + d - 1) \div d

-----------------------------------------------------------------------------
(* The data the endpoint can serve *)

\* Company profiles. description <<>> stands for an absent (or empty)
\* description: both are falsy at lines 71 and 186.
Profiles ==
  << [name |-> <<"B", "a">>, industry |-> <<"a", "b">>, location |-> <<"a">>,
      employees |-> 2, description |-> <<>>],
     [name |-> <<"b", "a">>, industry |-> <<"B">>, location |-> <<"B">>,
      employees |-> 2, description |-> <<"a", " ", "b">>],
     [name |-> <<"B", "a">>, industry |-> <<"B">>, location |-> <<"a">>,
      employees |-> 1, description |-> <<>>],
     [name |-> <<"b">>, industry |-> <<"a", "b">>, location |-> <<"B">>,
      employees |-> 3, description |-> <<"A">>],
     [name |-> <<"B", " ", "B">>, industry |-> <<"B">>, location |-> <<"a">>,
      employees |-> 1, description |-> <<>>] >>

\* Orders in which the profiles follow one another in a served collection.
Strides == {1, 2}

\* The largest collection served in each order.
MaxLen(stride) == IF stride = 1 THEN MaxCompanies ELSE MaxReordered

\* The i-th company of a collection: unique id i, profile chosen by stride.
Company(i, stride) ==
  LET p == Profiles[(((i - 1) * stride) % Len(Profiles)) + 1]
  IN  [id |-> i, name |-> p.name, industry |-> p.industry,
       location |-> p.location, employees |-> p.employees,
       description |-> p.description]

Collection(n, stride) == [i \in 1..n |-> Company(i, stride)]

\* A company whose location and industry read "All", like the sentinel.
NamedAll(i) ==
  [id |-> i, name |-> <<"l", "a", "b">>, industry |-> All, location |-> All,
   employees |-> 2, description |-> <<>>]

Collections ==
  UNION {{Collection(n, st) : n \in 0..MaxLen(st)} : st \in Strides}
  \cup {Append(Collection(n, 1), NamedAll(n + 1)) : n \in 0..MaxWithAll}

\* Texts the user types into the search box.
SearchTexts == {<<>>, <<" ">>, <<" ", "A", " ">>, <<"a", "b">>}

NoOutcome ==
  [kind |-> "none", status |-> 0, validJson |-> FALSE, body |-> <<>>,
   message |-> ""]

\* What the request to /companies.json can end in.
FetchOutcomes ==
  {[kind |-> "network", status |-> 0, validJson |-> FALSE, body |-> <<>>,
    message |-> m] : m \in {"Failed to fetch", ""}}
  \cup {[kind |-> "response", status |-> st, validJson |-> FALSE, body |-> <<>>,
         message |-> ""] : st \in {200, 404, 500}}
  \cup {[kind |-> "response", status |-> 200, validJson |-> TRUE, body |-> c,
         message |-> ""] : c \in Collections}

-----------------------------------------------------------------------------
(* fetchCompanies, lines 5-9 *)

\* Response.ok
ResponseOk(status) == status >= 200 /\ status <= 299

\* The settled promise of fetchCompanies(): resolved with data, or rejected
\* with an error whose message is given ("" when the error carries none).
fetchCompanies(out) ==
  IF out.kind = "network"
    THEN [resolved |-> FALSE, data |-> <<>>, message |-> out.message]
  ELSE IF ~ResponseOk(out.status)
    THEN [resolved |-> FALSE, data |-> <<>>,
          message |-> "Failed to load companies: " \o ToString(out.status)]
  ELSE IF ~out.validJson
    THEN [resolved |-> FALSE, data |-> <<>>,
          message |-> "Unexpected token < in JSON at position 0"]
  ELSE [resolved |-> TRUE, data |-> out.body, message |-> ""]

-----------------------------------------------------------------------------
(* Derived filter lists, lines 54-61 *)

\* Array.from(new Set(arr)): the distinct values in order of first occurrence.
RECURSIVE Distinct(_)
Distinct(arr) ==
  IF arr = <<>> THEN <<>>
  ELSE LET rest == Distinct(SubSeq(arr, 1, Len(arr) - 1))
           x == arr[Len(arr)]
       IN  IF \E i \in 1..Len(rest) : rest[i] = x THEN rest ELSE Append(rest, x)

\* Array.prototype.sort() without comparator: ascending by UTF-16 code units.
CodeUnits(s) == [i \in 1..Len(s) |-> CodeUnit[s[i]]]

RECURSIVE InsertString(_, _)
InsertString(x, arr) ==
  IF arr = <<>> THEN <<x>>
  ELSE IF LexCompare(CodeUnits(arr[Len(arr)]), CodeUnits(x)) <= 0
    THEN Append(arr, x)
    ELSE Append(InsertString(x, SubSeq(arr, 1, Len(arr) - 1)), arr[Len(arr)])

RECURSIVE SortStrings(_)
SortStrings(arr) ==
  IF arr = <<>> THEN <<>>
  ELSE InsertString(arr[Len(arr)], SortStrings(SubSeq(arr, 1, Len(arr) - 1)))

locations ==
  <<All>> \o SortStrings(Distinct([i \in 1..Len(companies) |-> companies[i].location]))

industries ==
  <<All>> \o SortStrings(Distinct([i \in 1..Len(companies) |-> companies[i].industry]))

-----------------------------------------------------------------------------
(* Filtering + searching + sorting, lines 64-84 *)

\* SearchMatches that also searches the location.
SearchMatches_AlsoLocation(c, q) ==
  \/ includes(toLowerCase(c.name), q)
  \/ (Truthy(c.description) /\ includes(toLowerCase(c.description), q))
  \/ (Truthy(c.industry) /\ includes(toLowerCase(c.industry), q))
  \/ includes(toLowerCase(c.location), q)

\* The predicate of the search filter, lines 69-72.
SearchMatches(c, q) ==
  \/ includes(toLowerCase(c.name), q)
  \/ (Truthy(c.description) /\ includes(toLowerCase(c.description), q))
  \/ (Truthy(c.industry) /\ includes(toLowerCase(c.industry), q))

\* Lines 66-74.
SearchStep(result, ds) ==
  IF Truthy(trim(ds))
    THEN LET q == toLowerCase(trim(ds))
         IN  SelectSeq(result, LAMBDA c : SearchMatches(c, q))
    ELSE result

\* LocationStep with the matches pushed onto result instead of replacing it.
LocationStep_Push(result, loc) ==
  IF loc # All
    THEN result \o SelectSeq(result, LAMBDA c : c.location = loc)
    ELSE result

\* Line 75.
LocationStep(result, loc) ==
  IF loc # All THEN SelectSeq(result, LAMBDA c : c.location = loc) ELSE result

\* IndustryStep that compares the company's location with the filter.
IndustryStep_WrongField(result, ind) ==
  IF ind # All THEN SelectSeq(result, LAMBDA c : c.location = ind) ELSE result

\* Line 76.
IndustryStep(result, ind) ==
  IF ind # All THEN SelectSeq(result, LAMBDA c : c.industry = ind) ELSE result

\* The comparator of each sort key, lines 78-81.
Compare(key, a, b) ==
  CASE key = "name-asc" -> localeCompare(a.name, b.name)
    [] key = "name-desc" -> localeCompare(b.name, a.name)
    [] key = "employees-asc" -> a.employees - b.employees
    [] key = "employees-desc" -> b.employees - a.employees

\* Insert that puts x before the elements it compares equal to.
RECURSIVE Insert_Unstable(_, _, _)
Insert_Unstable(key, x, arr) ==
  IF arr = <<>> THEN <<x>>
  ELSE IF Compare(key, arr[Len(arr)], x) < 0
    THEN Append(arr, x)
    ELSE Append(Insert_Unstable(key, x, SubSeq(arr, 1, Len(arr) - 1)),
                arr[Len(arr)])

\* Array.prototype.sort(compareFn): a stable sort (ECMAScript 2019), here by
\* insertion: x goes after every element that does not compare greater.
RECURSIVE Insert(_, _, _)
Insert(key, x, arr) ==
  IF arr = <<>> THEN <<x>>
  ELSE IF Compare(key, arr[Len(arr)], x) <= 0
    THEN Append(arr, x)
    ELSE Append(Insert(key, x, SubSeq(arr, 1, Len(arr) - 1)), arr[Len(arr)])

RECURSIVE SortBy(_, _)
SortBy(key, arr) ==
  IF arr = <<>> THEN <<>>
  ELSE Insert(key, arr[Len(arr)], SortBy(key, SubSeq(arr, 1, Len(arr) - 1)))

\* Lines 78-81: the key that equals sort selects the comparator; any other
\* value leaves the order alone.
SortStep(result, key) ==
  IF key \in {"name-asc", "name-desc", "employees-asc", "employees-desc"}
    THEN SortBy(key, result)
    ELSE result

\* ResultIsCopy for let result = companies, without slice().
ResultIsCopy_Alias == FALSE

\* Line 65: result starts as companies.slice(), a copy.
ResultIsCopy == TRUE

\* The collection after the memo of lines 64-84 has run: sort() at lines
\* 78-81 sorts result in place, and result is the companies array itself
\* when it is no copy and no filter() call has replaced it.
CompaniesAfterMemo(cs, ds, loc, ind, key) ==
  IF ResultIsCopy \/ Truthy(trim(ds)) \/ loc # All \/ ind # All
    THEN cs
    ELSE SortStep(cs, key)

Pipeline(cs, ds, loc, ind, key) ==
  SortStep(IndustryStep(LocationStep(SearchStep(cs, ds), loc), ind), key)

\* filtered computed from the raw search text.
filtered_Raw == Pipeline(companies, search, location, industry, sort)

filtered == Pipeline(companies, debouncedSearch, location, industry, sort)

-----------------------------------------------------------------------------
(* Pagination slice, lines 87-88 *)

TotalPagesOf(result) == Max(1, CeilDiv(Len(result), PAGE_SIZE))

totalPages == TotalPagesOf(filtered)

\* PageSlice with the page taken as 0-based.
PageSlice_ZeroBased(result, p) ==
  slice(result, p * PAGE_SIZE, (p + 1) * PAGE_SIZE)

PageSlice(result, p) == slice(result, (p - 1) * PAGE_SIZE, p * PAGE_SIZE)

paginated == PageSlice(filtered, page)

-----------------------------------------------------------------------------
(* Timers *)

\* setTimeout returns an id that no pending timer holds.
NewTimerId(ts) ==
  CHOOSE i \in 1..(Cardinality(ts) + 1) : \A t \in ts : t.id # i

\* clearTimeout that cancels nothing.
clearTimeout_Noop(ts, id) == ts

\* clearTimeout(id): a no-op when the timer has already fired.
clearTimeout(ts, id) == {t \in ts : t.id # id}

\* DebounceCleanup that leaves the previous timer pending.
DebounceCleanup_NoClear(ts, id) == ts

\* The debounce effect's cleanup, line 50.
DebounceCleanup(ts, id) == clearTimeout(ts, id)

\* DebounceEffect that starts no timer.
DebounceEffect_NoTimer(ts, value) == ts

\* The debounce effect's body, lines 47-49: a timer that captures value.
DebounceEffect(ts, value) == ts \cup {[id |-> NewTimerId(ts), value |-> value]}

-----------------------------------------------------------------------------
(* Guards and values of the handlers *)

\* ThenProceeds without the mount guard.
ThenProceeds_Unguarded(m) == TRUE

\* Line 33: the then handler goes on only while the mount flag is set.
ThenProceeds(m) == m

\* Line 38: and so does the catch handler.
CatchProceeds(m) == m

\* ErrorMessage without the fallback.
ErrorMessage_NoFallback(message) == message

\* Line 39: err.message || "Unknown error".
ErrorMessage(message) == IF message # "" THEN message ELSE "Unknown error"

\* CatchLoading that leaves the component loading.
CatchLoading_StillLoading == TRUE

\* Line 40: the value the catch handler gives loading.
CatchLoading == FALSE

\* PageResetEffect without the reset.
PageResetEffect_Keep(changed, p) == p

\* Lines 90-92: the effect sets the page to 1 when one of its dependencies
\* (debouncedSearch, location, industry, sort) changed in the render.
PageResetEffect(changed, p) == IF changed THEN 1 ELSE p

\* Line 195: the Prev button's updater.
PrevUpdater(p) == Max(1, p - 1)

\* NextUpdater without the bounds check.
NextUpdater_Unbounded(tp, p) == p + 1

\* Line 202: the Next button's updater; tp is the render's totalPages.
NextUpdater(tp, p) == Min(tp, p + 1)

\* Lines 94 and 103: the listing is rendered once loading is over without
\* error; only then do the inputs and buttons exist.
Rendered == phase = "mounted" /\ ~loading /\ (error = null \/ error = "")

-----------------------------------------------------------------------------
(* The state machine *)

\* The first render: the useState initial values, lines 12-24.
Init ==
  /\ phase = "init"
  /\ companies = <<>>
  /\ loading = TRUE
  /\ error = null
  /\ search = <<>>
  /\ debouncedSearch = <<>>
  /\ location = All
  /\ industry = All
  /\ sort = "name-asc"
  /\ page = 1
  /\ mounted = FALSE
  /\ fetchState = "none"
  /\ fetchCount = 0
  /\ settledWith = NoOutcome
  /\ timers = {}
  /\ timer = 0
  /\ burstLen = 0
  /\ applied = <<>>
  /\ resetFrom = 0

\* The effects of the first commit: the fetch effect (lines 28-43), the
\* debounce effect (46-51) and the page reset effect (90-92).
Mount ==
  /\ phase = "init"
  /\ phase' = "mounted"
  /\ mounted' = TRUE
  /\ loading' = TRUE
  /\ fetchState' = "pending"
  /\ fetchCount' = fetchCount + 1
  /\ timers' = DebounceEffect(timers, search)
  /\ timer' = NewTimerId(timers)
  /\ page' = 1
  /\ resetFrom' = 0
  /\ UNCHANGED <<companies, error, search, debouncedSearch, location, industry,
                 sort, settledWith, burstLen, applied>>

\* The promise resolves and the then handler runs, lines 32-36.
FetchResolve(out) ==
  /\ fetchState = "pending"
  /\ fetchCompanies(out).resolved
  /\ fetchState' = "settled"
  /\ settledWith' = out
  /\ IF ThenProceeds(mounted)
       THEN /\ companies' = CompaniesAfterMemo(fetchCompanies(out).data,
                                              debouncedSearch, location,
                                              industry, sort)
            /\ loading' = FALSE
       ELSE UNCHANGED <<companies, loading>>
  /\ resetFrom' = 0
  /\ UNCHANGED <<phase, error, search, debouncedSearch, location, industry, sort,
                 page, mounted, fetchCount, timers, timer, burstLen, applied>>

\* The promise rejects and the catch handler runs, lines 37-41.
FetchReject(out) ==
  /\ fetchState = "pending"
  /\ ~fetchCompanies(out).resolved
  /\ fetchState' = "settled"
  /\ settledWith' = out
  /\ IF CatchProceeds(mounted)
       THEN /\ error' = ErrorMessage(fetchCompanies(out).message)
            /\ loading' = CatchLoading
       ELSE UNCHANGED <<error, loading>>
  /\ resetFrom' = 0
  /\ UNCHANGED <<phase, companies, search, debouncedSearch, location, industry,
                 sort, page, mounted, fetchCount, timers, timer, burstLen,
                 applied>>

\* Teardown: the cleanups of the fetch effect (line 42) and of the debounce
\* effect (line 50).
Unmount ==
  /\ phase = "mounted"
  /\ phase' = "unmounted"
  /\ mounted' = FALSE
  /\ timers' = DebounceCleanup(timers, timer)
  /\ resetFrom' = 0
  /\ UNCHANGED <<companies, loading, error, search, debouncedSearch, location,
                 industry, sort, page, fetchState, fetchCount, settledWith, timer, burstLen,
                 applied>>

\* The search input's onChange, line 126, and the debounce effect it
\* re-runs: cleanup of the previous timer, then a new timer.
ChangeSearch(v) ==
  /\ Rendered
  /\ v # search
  /\ Cardinality(DebounceCleanup(timers, timer)) < MaxTimers
  /\ search' = v
  /\ timers' = DebounceEffect(DebounceCleanup(timers, timer), v)
  /\ timer' = NewTimerId(DebounceCleanup(timers, timer))
  /\ burstLen' = IF timers = {} THEN 1 ELSE Min(burstLen + 1, MaxBurst)
  /\ applied' = IF timers = {} THEN <<>> ELSE applied
  /\ resetFrom' = 0
  /\ UNCHANGED <<phase, companies, loading, error, debouncedSearch, location,
                 industry, sort, page, mounted, fetchState, fetchCount, settledWith>>

\* A pending timer fires, line 48, and the page reset effect follows when
\* debouncedSearch changed.
TimerFire(t) ==
  /\ t \in timers
  /\ timers' = timers \ {t}
  /\ debouncedSearch' = t.value
  /\ companies' = IF t.value # debouncedSearch
                    THEN CompaniesAfterMemo(companies, t.value, location,
                                            industry, sort)
                    ELSE companies
  /\ page' = PageResetEffect(t.value # debouncedSearch, page)
  /\ applied' = Append(applied, t.value)
  /\ resetFrom' = IF t.value # debouncedSearch THEN page ELSE 0
  /\ UNCHANGED <<phase, loading, error, search, location, industry,
                 sort, mounted, fetchState, fetchCount, settledWith, timer, burstLen>>

\* The location select's onChange, line 131.
SetLocation(l) ==
  /\ Rendered
  /\ l # location
  /\ location' = l
  /\ companies' =
       CompaniesAfterMemo(companies, debouncedSearch, l, industry, sort)
  /\ page' = PageResetEffect(TRUE, page)
  /\ resetFrom' = page
  /\ UNCHANGED <<phase, loading, error, search, debouncedSearch,
                 industry, sort, mounted, fetchState, fetchCount, settledWith, timers, timer,
                 burstLen, applied>>

\* The industry select's onChange, line 139.
SetIndustry(i) ==
  /\ Rendered
  /\ i # industry
  /\ industry' = i
  /\ companies' =
       CompaniesAfterMemo(companies, debouncedSearch, location, i, sort)
  /\ page' = PageResetEffect(TRUE, page)
  /\ resetFrom' = page
  /\ UNCHANGED <<phase, loading, error, search, debouncedSearch,
                 location, sort, mounted, fetchState, fetchCount, settledWith, timers, timer,
                 burstLen, applied>>

\* The sort select's onChange, line 147.
SetSort(k) ==
  /\ Rendered
  /\ k # sort
  /\ sort' = k
  /\ companies' =
       CompaniesAfterMemo(companies, debouncedSearch, location, industry, k)
  /\ page' = PageResetEffect(TRUE, page)
  /\ resetFrom' = page
  /\ UNCHANGED <<phase, loading, error, search, debouncedSearch,
                 location, industry, mounted, fetchState, fetchCount, settledWith, timers,
                 timer, burstLen, applied>>

\* The Prev button, lines 194-200; disabled on page 1.
PrevPage ==
  /\ Rendered
  /\ page # 1
  /\ page' = PrevUpdater(page)
  /\ resetFrom' = 0
  /\ UNCHANGED <<phase, companies, loading, error, search, debouncedSearch,
                 location, industry, sort, mounted, fetchState, fetchCount, settledWith,
                 timers, timer, burstLen, applied>>

\* The Next button, lines 201-207; disabled on the last page.
NextPage ==
  /\ Rendered
  /\ page # totalPages
  /\ page' = NextUpdater(totalPages, page)
  /\ resetFrom' = 0
  /\ UNCHANGED <<phase, companies, loading, error, search, debouncedSearch,
                 location, industry, sort, mounted, fetchState, fetchCount, settledWith,
                 timers, timer, burstLen, applied>>

Range(arr) == {arr[i] : i \in 1..Len(arr)}

Next ==
  \/ Mount
  \/ \E out \in FetchOutcomes : FetchResolve(out)
  \/ \E out \in FetchOutcomes : FetchReject(out)
  \/ Unmount
  \/ \E v \in SearchTexts : ChangeSearch(v)
  \/ \E t \in timers : TimerFire(t)
  \/ \E l \in Range(locations) : SetLocation(l)
  \/ \E i \in Range(industries) : SetIndustry(i)
  \/ \E k \in SortKeys : SetSort(k)
  \/ PrevPage
  \/ NextPage

Spec == Init /\ [][Next]_vars

\* The event loop runs the callback of every timer that stays pending.
FairSpec == Spec /\ WF_vars(\E t \in timers : TimerFire(t))

TypeOK ==
  /\ phase \in {"init", "mounted", "unmounted"}
  /\ companies \in Collections
  /\ loading \in BOOLEAN
  /\ search \in SearchTexts
  /\ debouncedSearch \in SearchTexts
  /\ sort \in SortKeys
  /\ page \in 1..(MaxCompanies + 1)

-----------------------------------------------------------------------------
(* Properties *)

Count(arr, x) == Cardinality({i \in 1..Len(arr) : arr[i] = x})

\* C1: every company of the pipeline result is an element of the loaded
\* collection, and none occurs in the result more often than in the collection.
C1_ResultWithinCollection ==
  LET f == filtered
  IN  \A i \in 1..Len(f) :
        /\ Count(companies, f[i]) >= 1
        /\ Count(f, f[i]) <= Count(companies, f[i])

\* A search, a location filter and a non-default sort are active and the
\* result is a non-empty proper part of the collection.
C1_Witness ==
  /\ Rendered
  /\ trim(debouncedSearch) # <<>>
  /\ location # All
  /\ sort # "name-asc"
  /\ Len(filtered) >= 2
  /\ Len(filtered) < Len(companies)

RECURSIVE ConcatPages(_, _)
ConcatPages(result, n) ==
  IF n = 0 THEN <<>> ELSE ConcatPages(result, n - 1) \o PageSlice(result, n)

\* C2: the page slices for page = 1..totalPages, concatenated, are exactly the
\* pipeline result, and no slice holds more than PAGE_SIZE (8) companies.
C2_PagesReproduceResult ==
  LET f == filtered
      n == TotalPagesOf(f)
  IN  /\ ConcatPages(f, n) = f
      /\ \A p \in 1..n : Len(PageSlice(f, p)) <= PAGE_SIZE

\* A result of three pages, the last one partial, shown on its middle page.
C2_Witness ==
  /\ Rendered
  /\ totalPages = 3
  /\ page = 2
  /\ Len(paginated) = PAGE_SIZE
  /\ Len(PageSlice(filtered, 3)) \in 1..(PAGE_SIZE - 1)

\* C3: a step that changes the debounced search text, the location filter,
\* the industry filter or the sort key leaves the current page at 1.
C3_InputChangeResetsPage ==
  [][(\/ debouncedSearch' # debouncedSearch
      \/ location' # location
      \/ industry' # industry
      \/ sort' # sort) => page' = 1]_vars

\* An input was changed while a later page was shown, and the page is 1.
C3_Witness ==
  /\ resetFrom > 1
  /\ page = 1

\* C4: within a burst of raw changes, each arriving while the timer of the
\* previous one is pending, the debounced text is set at most once, and to
\* the last raw text of the burst (the current raw text).
C4_BurstAppliesLastOnce ==
  /\ Len(applied) <= 1
  /\ applied # <<>> => (applied[1] = search /\ debouncedSearch = search)

\* A burst of two or more changes has been applied.
C4_Witness ==
  /\ burstLen >= 2
  /\ Len(applied) = 1
  /\ debouncedSearch = search
  /\ trim(search) # <<>>

\* The position of company c in arr (ids are unique).
PosIn(arr, c) == CHOOSE i \in 1..Len(arr) : arr[i].id = c.id

\* a may stand before b under the sort key.
InKeyOrder(key, a, b) ==
  CASE key = "name-asc" -> localeCompare(a.name, b.name) <= 0
    [] key = "name-desc" -> localeCompare(a.name, b.name) >= 0
    [] key = "employees-asc" -> a.employees <= b.employees
    [] key = "employees-desc" -> a.employees >= b.employees

EqualOnKey(key, a, b) ==
  IF key \in {"name-asc", "name-desc"}
    THEN localeCompare(a.name, b.name) = 0
    ELSE a.employees = b.employees

\* C5: the pipeline result is ordered by the sort key, and companies equal on
\* the key keep the relative order they have in the loaded collection.
C5_SortedAndStable ==
  LET f == filtered
  IN  \A i, j \in 1..Len(f) :
        i < j =>
          /\ InKeyOrder(sort, f[i], f[j])
          /\ EqualOnKey(sort, f[i], f[j]) =>
               PosIn(companies, f[i]) < PosIn(companies, f[j])

\* A result that holds ties on the key and is not in collection order.
C5_Witness ==
  LET f == filtered
  IN  /\ Rendered
      /\ sort = "employees-desc"
      /\ \E i, j \in 1..Len(f) : i < j /\ EqualOnKey(sort, f[i], f[j])
      /\ \E i, j \in 1..Len(f) :
           i < j /\ PosIn(companies, f[i]) > PosIn(companies, f[j])

SearchActive == trim(debouncedSearch) # <<>>

\* c's name, description or industry contains q, compared in lower case.
ContainsText(c, q) ==
  \E field \in {c.name, c.description, c.industry} :
    includes(toLowerCase(field), toLowerCase(q))

PassesLocation(c) == location # All => c.location = location

PassesIndustry(c) == industry # All => c.industry = industry

\* C6: a company of the collection is in the pipeline result if and only if
\* it passes every active criterion: the location filter, the industry filter
\* and, when search is active, the search text (trimmed, see C7).
C6_ResultIsConjunctionOfCriteria ==
  LET f == filtered
  IN  \A i \in 1..Len(companies) :
        (\E j \in 1..Len(f) : f[j] = companies[i])
          <=> /\ PassesLocation(companies[i])
              /\ PassesIndustry(companies[i])
              /\ SearchActive => ContainsText(companies[i], trim(debouncedSearch))

\* All three criteria are active; some companies pass them all and some
\* company that passes two of them fails the third.
C6_Witness ==
  /\ Rendered
  /\ SearchActive
  /\ location # All
  /\ industry # All
  /\ filtered # <<>>
  /\ \E i \in 1..Len(companies) :
       /\ PassesLocation(companies[i])
       /\ ContainsText(companies[i], trim(debouncedSearch))
       /\ ~PassesIndustry(companies[i])

\* C7 as stated: a non-empty debounced search text leaves only companies
\* that contain that text; an empty one removes no company.
C7_Original ==
  LET f == filtered
  IN  /\ debouncedSearch # <<>> =>
           \A j \in 1..Len(f) : ContainsText(f[j], debouncedSearch)
      /\ debouncedSearch = <<>> =>
           \A i \in 1..Len(companies) :
             (PassesLocation(companies[i]) /\ PassesIndustry(companies[i]))
               => \E j \in 1..Len(f) : f[j] = companies[i]

\* C7 (amended): when the debounced search text, trimmed of leading and
\* trailing whitespace, is non-empty, the result holds only companies whose
\* name, description or industry contains the trimmed text, compared
\* case-insensitively; when the trimmed text is empty, the search step
\* removes no company.
C7_TrimmedSearch ==
  LET f == filtered
  IN  /\ SearchActive =>
           \A j \in 1..Len(f) : ContainsText(f[j], trim(debouncedSearch))
      /\ ~SearchActive =>
           \A i \in 1..Len(companies) :
             (PassesLocation(companies[i]) /\ PassesIndustry(companies[i]))
               => \E j \in 1..Len(f) : f[j] = companies[i]

\* A padded upper-case search text matches some companies in lower case,
\* none of which contains the untrimmed text, and removes another company.
C7_Witness ==
  /\ Rendered
  /\ debouncedSearch # trim(debouncedSearch)
  /\ SearchActive
  /\ filtered # <<>>
  /\ Len(filtered) < Len(companies)
  /\ location = All
  /\ industry = All

\* The request ended in a failure.
Failed == fetchState = "settled" /\ ~fetchCompanies(settledWith).resolved

\* C8: when the fetch has failed while the component was mounted, error is a
\* non-empty message (with the status code for a non-2xx response, "Unknown
\* error" for an error without message), loading is false and the collection
\* is empty; an error never stands beside loaded data.
C8_FailureShowsError ==
  /\ (Failed /\ phase = "mounted") =>
       /\ error # null /\ error # ""
       /\ ~loading
       /\ companies = <<>>
       /\ (settledWith.kind = "response" /\ settledWith.status = 404)
            => error = "Failed to load companies: 404"
       /\ (settledWith.kind = "response" /\ settledWith.status = 500)
            => error = "Failed to load companies: 500"
       /\ (settledWith.kind = "network" /\ settledWith.message = "")
            => error = "Unknown error"
       /\ (settledWith.kind = "network" /\ settledWith.message # "")
            => error = settledWith.message
  /\ error # null => companies = <<>>

\* The fetch failed without a message while mounted.
C8_Witness ==
  /\ Failed
  /\ phase = "mounted"
  /\ settledWith.kind = "network"
  /\ settledWith.message = ""
  /\ error = "Unknown error"

\* The loader state of lines 94-111.
LoaderState ==
  IF loading THEN "loading" ELSE IF error # null THEN "error" ELSE "ready"

\* C9: the fetch is issued exactly once per mount; loading, error and ready
\* exclude one another; the loader starts in loading, and once it is ready or
\* in error neither its state nor its collection or message changes again.
C9_LoaderSettlesOnce ==
  /\ [](phase = "init" => (fetchCount = 0 /\ LoaderState = "loading"))
  /\ [](phase # "init" => fetchCount = 1)
  /\ [](loading => (error = null /\ companies = <<>>))
  /\ [](error # null => companies = <<>>)
  /\ [][LoaderState # "loading" =>
          /\ LoaderState' = LoaderState
          /\ companies' = companies
          /\ error' = error]_vars

\* The loader is ready with data and the user has been working on it.
C9_Witness ==
  /\ LoaderState = "ready"
  /\ companies # <<>>
  /\ fetchCount = 1
  /\ page > 1
  /\ sort # "name-asc"

\* C10: after teardown no step changes companies, loading or error.
C10_NoUpdateAfterTeardown ==
  [][phase = "unmounted" => UNCHANGED <<companies, loading, error>>]_vars

\* The fetch settled after teardown and the loader state is as it was.
C10_Witness ==
  /\ phase = "unmounted"
  /\ fetchState = "settled"
  /\ fetchCompanies(settledWith).resolved
  /\ settledWith.body # <<>>
  /\ loading
  /\ companies = <<>>

\* The entries of an option list after the leading "All".
Options(list) == SubSeq(list, 2, Len(list))

\* list is "All" followed by each value of values once, in ascending order
\* of code units, and holds no entry twice.
IsOptionList(list, values) ==
  /\ list # <<>>
  /\ list[1] = All
  /\ Range(Options(list)) = values
  /\ \A i, j \in 2..Len(list) :
       i < j => LexCompare(CodeUnits(list[i]), CodeUnits(list[j])) < 0
  /\ \A i, j \in 1..Len(list) : i # j => list[i] # list[j]

\* C11: the location option list is "All" followed by each distinct location
\* of the collection once, in ascending lexicographic order, the industry
\* option list likewise, and neither list holds a duplicate entry.
C11_OptionLists ==
  /\ IsOptionList(locations, {companies[i].location : i \in 1..Len(companies)})
  /\ IsOptionList(industries, {companies[i].industry : i \in 1..Len(companies)})

\* The step changes none of the pipeline's inputs.
InputsUnchanged ==
  UNCHANGED <<companies, debouncedSearch, location, industry, sort>>

\* C12: Prev yields max(1, p - 1) and Next yields min(totalPages, p + 1): on
\* page 1 Prev keeps the page, on the last page Next keeps it, elsewhere they
\* move by one, and no page change that leaves the inputs alone ends below 1
\* or above totalPages.
C12_BoundsCheckedTransitions ==
  /\ [](Rendered =>
          LET tp == totalPages
          IN  /\ PrevUpdater(page) = (IF page = 1 THEN 1 ELSE page - 1)
              /\ NextUpdater(tp, page) = (IF page >= tp THEN tp ELSE page + 1)
              /\ PrevUpdater(page) \in 1..tp
              /\ NextUpdater(tp, page) \in 1..tp)
  /\ [][(Rendered /\ InputsUnchanged /\ page' # page) =>
          /\ page' \in {page - 1, page + 1}
          /\ page' \in 1..totalPages]_vars

\* Next has led to the last of three pages, where it keeps the page.
C12_Witness ==
  /\ Rendered
  /\ totalPages = 3
  /\ page = totalPages
  /\ NextUpdater(totalPages, page) = page

\* C13: at most one debounce timer is pending at any time, teardown leaves
\* none pending, and after teardown the debounced search text never changes.
C13_SingleTimerCancelledOnTeardown ==
  /\ [](Cardinality(timers) <= 1)
  /\ [](phase = "unmounted" => timers = {})
  /\ [][phase = "unmounted" => debouncedSearch' = debouncedSearch]_vars

\* Teardown came while the timer of the last of several changes was pending:
\* the raw text was never applied.
C13_Witness ==
  /\ phase = "unmounted"
  /\ burstLen >= 2
  /\ applied = <<>>
  /\ search # debouncedSearch
  /\ timers = {}

\* C14: while the component stays mounted and the raw search text stays v,
\* the debounced search text eventually is v; and once the two are equal they
\* stay equal until the raw text changes.
C14_DebouncedCatchesUp ==
  /\ \A v \in SearchTexts :
       (search = v /\ phase = "mounted")
         ~> (debouncedSearch = v \/ search # v \/ phase = "unmounted")
  /\ [][(debouncedSearch = search /\ search' = search)
          => debouncedSearch' = search']_vars

\* The timer of the last change has fired and the texts agree.
C14_Witness ==
  /\ phase = "mounted"
  /\ timers = {}
  /\ burstLen >= 1
  /\ applied = <<search>>
  /\ debouncedSearch = search
  /\ search = <<"a", "b">>

\* C15: totalPages is 1 for an empty result and the least number of pages
\* of PAGE_SIZE (8) that hold the result otherwise; it is never below 1,
\* every page of a non-empty result is non-empty, and every page but the
\* last holds exactly 8 companies.
C15_TotalPages ==
  LET f == filtered
      n == Len(f)
      tp == TotalPagesOf(f)
  IN  /\ tp >= 1
      /\ n = 0 => tp = 1
      /\ n > 0 => (tp * PAGE_SIZE >= n /\ (tp - 1) * PAGE_SIZE < n)
      /\ n > 0 => \A p \in 1..tp : Len(PageSlice(f, p)) >= 1
      /\ \A p \in 1..(tp - 1) : Len(PageSlice(f, p)) = PAGE_SIZE

\* A result of exactly two full pages, shown on the second.
C15_Witness ==
  /\ Rendered
  /\ Len(filtered) = 2 * PAGE_SIZE
  /\ totalPages = 2
  /\ page = 2
  /\ Len(paginated) = PAGE_SIZE

Loaded ==
  fetchState = "settled" /\ fetchCompanies(settledWith).resolved /\ ~loading

\* C17: once loaded, companies is the served collection, contents and order,
\* whatever the user has done since, so the pipeline result is determined by
\* the served collection and the current inputs alone.
C17_CollectionNeverChanged ==
  Loaded =>
    /\ companies = settledWith.body
    /\ filtered = Pipeline(settledWith.body, debouncedSearch, location,
                           industry, sort)

\* No filter is active and the result is the whole collection in another
\* order than the collection's own.
C17_Witness ==
  /\ Rendered
  /\ ~SearchActive
  /\ location = All
  /\ industry = All
  /\ sort = "employees-desc"
  /\ Len(filtered) = Len(companies)
  /\ filtered # companies

\* C18: a step that changes the raw search text changes neither the debounced
\* text, the other inputs, the pipeline result, totalPages nor the page; and
\* while the raw text awaits its timer, a page change that leaves the inputs
\* alone stays within the pages of the result for the debounced text.
C18_RawChangeTouchesNothingElse ==
  /\ [][search' # search =>
          /\ UNCHANGED <<debouncedSearch, companies, location, industry, sort,
                         page>>
          /\ Pipeline(companies', debouncedSearch', location', industry',
                      sort') = filtered
          /\ TotalPagesOf(Pipeline(companies', debouncedSearch', location',
                                   industry', sort')) = totalPages]_vars
  /\ [][(search # debouncedSearch /\ InputsUnchanged /\ page' # page) =>
          page' \in 1..TotalPagesOf(Pipeline(companies, debouncedSearch,
                                             location, industry, sort))]_vars

\* The raw text awaits its timer on a page that the result for the raw text
\* would not have.
C18_Witness ==
  /\ Rendered
  /\ timers # {}
  /\ search # debouncedSearch
  /\ page > 1
  /\ page = totalPages
  /\ TotalPagesOf(Pipeline(companies, search, location, industry, sort)) < page

====
